---- MODULE Spec2Model ----
(***************************************************************************)
(* Model of the dispatch core of back-irix:                                *)
(*   - services/geminiService.js : rotation cursor, bounded concurrency    *)
(*     queue (getGeminiReply / processQueue / executeGeminiRequest),       *)
(*     statistics snapshot (getRotationStats);                             *)
(*   - socket/SocketServer.js    : the shared serverStatus gate of the     *)
(*     'analyze-image' stream channel.                                     *)
(* Every action is one run-to-completion piece of JavaScript: the          *)
(* synchronous part of a handler up to its first real suspension, or one   *)
(* promise continuation.                                                   *)
(***************************************************************************)
EXTENDS Integers, Sequences, FiniteSets, TLC

----------------------------------------------------------------------------
(* Bounds of the model *)

\* number of getGeminiReply submissions explored
MaxTasks == 6

\* number of submissions explored under the fairness assumptions of LiveSpec
MaxLiveTasks == 4

\* number of getNextEndpoint calls explored by RotationSpec (two full cycles)
MaxCalls == 16

\* number of 'analyze-image' messages explored by StreamSpec
MaxMessages == 3

\* number of connected sockets
NumClients == 2

\* number of single-shot uploads explored by UploadSpec
MaxUploads == 3

\* the concurrency cap; 20 in the source, scaled down so that the cap is hit
MAX_CONCURRENT_REQUESTS == 2

\* segments an upstream reply text is put together from (ParserSpec)
MaxSegs == 2

\* size of the rolling latency window (100 in the source, scaled down)
MaxProcessingTimes == 3

\* latencies, in ms, an upstream call can be measured with (MetricsSpec)
MaxLatency == 2

\* submissions in MetricsSpec
MaxMetricTasks == 5

(* Program constants *)

\* API_KEYS.length
NumKeys == 4

\* VERSIONS.length
NumVersions == 2

\* IMAGE_CONFIG.MAX_SIZE
MAX_SIZE == 5 * 1024 * 1024

Tasks == 1..MaxTasks

Clients == 1..NumClients

Uploads == 1..MaxUploads

\* getGeminiReply submissions made next to the stream in StreamSpec: enough to
\* fill the cap and put one task in the backlog
StreamTasks == 1..(MAX_CONCURRENT_REQUESTS + 1)

----------------------------------------------------------------------------
VARIABLES
    currentKeyIndex,      \* rotation cursor: index into API_KEYS
    currentVersionIndex,  \* rotation cursor: index into VERSIONS
    requestCount,         \* total submissions
    activeRequests,       \* upstream calls in flight
    requestQueue,         \* backlog: sequence of task ids ({resolve, reject, buffer, options})
    successfulRequests,
    failedRequests,
    processingTimes,      \* rolling window of the latencies of successful calls
    pc,                   \* task -> position of the task's promise chain
    via,                  \* task -> how its pending call was started: "direct" (by
                          \* getGeminiReply), "queue" (by processQueue), else "none"
    result,               \* task -> "none" | "ok" | "err": value/error of the pending
                          \* executeGeminiRequest promise, until it is handed to the caller
    starts,               \* task -> number of upstream calls started for it
    settles,              \* task -> number of times its promise was resolved/rejected
    startLog,             \* the (credential, variant) pairs of the dispatched calls, in order
    serverStatus,         \* SocketServer: shared status of the stream channel
    frames,               \* stream frames whose processImageFromSocket chain is pending
    messageCount,         \* number of 'analyze-image' messages received
    uploads,              \* upload -> position of its imageController.detectPlate call
    alive,                \* the Node process is running
    input,                \* argument of the function under study (pure-function specs)
    reply                 \* what the latest step handed to the outside: a settled
                          \* promise, a stats snapshot, an emitted socket event

dispVars == <<currentKeyIndex, currentVersionIndex, requestCount, activeRequests,
              requestQueue, successfulRequests, failedRequests, processingTimes,
              pc, via, result, starts, settles, startLog>>

streamVars == <<serverStatus, frames, messageCount>>

restVars == <<uploads, alive, input>>

vars == <<dispVars, streamVars, restVars, reply>>

NoInput == [kind |-> "none"]

NoReply == [kind |-> "none"]

\* task t's promise is resolved (result "ok") or rejected (result "err")
Settled(t, res) ==
    [kind |-> "settled", task |-> t,
     how |-> IF res = "ok" THEN "resolved" ELSE "rejected"]

----------------------------------------------------------------------------
(* getNextEndpoint *)

\* the (credential, variant) pair the returned endpoint is built from
EndpointPair(k, v) == [key |-> k, version |-> v]

\* bug variant: the variant index is not wrapped
NextVersionIndex_noWrap(v) == v + 1

NextVersionIndex(v) == (v + 1) % NumVersions

\* bug variants: the key rotated on every call / on the wrong version index
NextKeyIndex_always(k, v2) == (k + 1) % NumKeys

NextKeyIndex_wrongWrap(k, v2) == IF v2 = 1 THEN (k + 1) % NumKeys ELSE k

NextKeyIndex(k, v2) == IF v2 = 0 THEN (k + 1) % NumKeys ELSE k

\* getNextEndpoint(): returns the endpoint of the current pair (logged in
\* startLog), then rotates the version and, on wrap-around, the key
GetNextEndpoint ==
    /\ startLog' = Append(startLog, EndpointPair(currentKeyIndex, currentVersionIndex))
    /\ currentVersionIndex' = NextVersionIndex(currentVersionIndex)
    /\ currentKeyIndex' = NextKeyIndex(currentKeyIndex, currentVersionIndex')

----------------------------------------------------------------------------
(* getGeminiReply / processQueue helpers *)

\* bug variants: off-by-one comparisons of the cap
CanProcessImmediately_le(active) == active <= MAX_CONCURRENT_REQUESTS

CanProcessImmediately_early(active) == active < MAX_CONCURRENT_REQUESTS - 1

\* `if (activeRequests < MAX_CONCURRENT_REQUESTS)` in getGeminiReply
CanProcessImmediately(active) == active < MAX_CONCURRENT_REQUESTS

\* bug variant: the completion handler never restarts the backlog
ProcessQueueStarts_never(queue, active) == FALSE

\* negation of processQueue's early return
ProcessQueueStarts(queue, active) ==
    ~(Len(queue) = 0 \/ active >= MAX_CONCURRENT_REQUESTS)

\* bug variant: the newest entry is served (pop instead of shift)
ShiftedEntry_last(queue) == queue[Len(queue)]

\* requestQueue.shift(): the entry taken ...
ShiftedEntry(queue) == Head(queue)

\* bug variant: the head is read but not removed
AfterShift_keep(queue) == queue

\* ... and what is left in the queue
AfterShift(queue) == Tail(queue)

\* requestQueue.push(entry)
AfterPush(queue, t) == Append(queue, t)

\* executeGeminiRequest(buffer, options) called for task t: runs synchronously
\* through getGeminiReplyInternal up to `await fetch(endpoint)`, which includes
\* the call of getNextEndpoint.
StartCall(t) ==
    /\ GetNextEndpoint
    /\ starts' = [starts EXCEPT ![t] = @ + 1]

NoCall == UNCHANGED <<startLog, currentVersionIndex, currentKeyIndex, starts>>

----------------------------------------------------------------------------
(* SocketServer.js / ImageHandler.js: the stream channel *)

READY == "ready"

PROCESSING == "processing"

ERROR == "error"

MAINTENANCE == "maintenance"

\* IMAGE_CONFIG.ALLOWED_FORMATS
ALLOWED_FORMATS == {"image/jpeg", "image/png", "image/webp"}

\* result.result of a failure record: the record has no such field
Undefined == [undefined |-> TRUE]

\* The 'analyze-image' payloads explored.  hasData: imageData and imageData.data
\* are truthy; format "" and size 0: the field is absent; kind: the JavaScript
\* type of imageData.data; decodable: sharp can decode the bytes.
ImageInputs ==
    [hasData : BOOLEAN,
     format : {"", "image/jpeg", "image/gif"},
     size : {0, 1024, MAX_SIZE, MAX_SIZE + 1},
     kind : {"buffer", "base64", "object"},
     decodable : BOOLEAN]

\* The payloads sent in StreamSpec: a valid decodable one, and for each stage
\* of the pipeline those that fail it while passing the stages before it
\* (declared format and size absent unless they are what fails).
StreamInputs ==
    {img \in ImageInputs :
        \/ ~img.hasData /\ img.format = "" /\ img.size = 0 /\ img.kind = "buffer" /\ ~img.decodable
        \/ img.hasData /\ img.format = "image/gif" /\ img.size = 0 /\ img.kind = "buffer" /\ img.decodable
        \/ img.hasData /\ img.format = "image/jpeg" /\ img.size = MAX_SIZE + 1 /\ img.kind = "buffer" /\ img.decodable
        \/ img.hasData /\ img.format = "" /\ img.size = 0 /\ img.kind = "object" /\ ~img.decodable
        \/ img.hasData /\ img.format = "image/jpeg" /\ img.size = MAX_SIZE /\ img.kind \in {"buffer", "base64"}}

\* codes _getErrorCode can derive from a sharp error message (it mentions
\* "format" or it does not)
SharpErrorCodes == {"INVALID_FORMAT", "INTERNAL_ERROR"}

\* bug variant: the declared size is not tested
ValidateImageData_noSize(img) ==
    IF ~img.hasData THEN "No image data provided"
    ELSE IF img.format # "" /\ img.format \notin ALLOWED_FORMATS THEN "Unsupported format"
    ELSE ""

\* _validateImageData: "" when valid, else the error message (without the
\* value the source appends to it)
ValidateImageData(img) ==
    IF ~img.hasData THEN "No image data provided"
    ELSE IF img.format # "" /\ img.format \notin ALLOWED_FORMATS THEN "Unsupported format"
    ELSE IF img.size # 0 /\ img.size > MAX_SIZE THEN "Image too large"
    ELSE ""

\* _getErrorCode applied to the messages of ValidateImageData
ValidationErrorCode(msg) ==
    IF msg = "Unsupported format" THEN "INVALID_FORMAT"
    ELSE IF msg = "Image too large" THEN "IMAGE_TOO_LARGE"
    ELSE "INTERNAL_ERROR"

\* the record processImageFromSocket returns from its catch block
FailureRecord(code, msg) ==
    [success |-> FALSE, code |-> code, message |-> msg, result |-> Undefined]

\* error.message when _convertToBuffer throws: the data is no Buffer, string,
\* ArrayBuffer or Uint8Array
ConvertErrorMessage ==
    "Error convirtiendo imagen: Buffer conversion failed: Unsupported image data format"

\* error.message when _preprocessImage throws; sharp's own text mentions the
\* format (code INVALID_FORMAT) or does not
PreprocessErrorMessage(code) ==
    IF code = "INVALID_FORMAT"
      THEN "Error procesando imagen: Image preprocessing failed: unsupported image format"
      ELSE "Error procesando imagen: Image preprocessing failed: corrupt header"

\* the record processImageFromSocket returns after detectPlate; det is the
\* detection outcome "plate", "noplate" or "error" (detectPlate returns an
\* error response, it does not throw)
SuccessRecord(det) ==
    [success |-> TRUE, code |-> "", message |-> "",
     result |-> [hasPlate |-> (det = "plate"),
                 confidence |-> IF det = "error" THEN "error" ELSE "score",
                 processingTime |-> "elapsed"]]

\* bug variant: every message is admitted
IsReady_always(status) == TRUE

\* `serverStatus !== SERVER_STATUS.READY` negated
IsReady(status) == status = READY

\* bug variant: the status is not switched on admission
AdmittedStatus_unset(status) == status

\* `serverStatus = SERVER_STATUS.PROCESSING`
AdmittedStatus(status) == PROCESSING

\* bug variant: a failed frame parks the server in ERROR
SettledStatus_error(res) == IF res.success THEN READY ELSE ERROR

\* `serverStatus = SERVER_STATUS.READY` in the .then callback
SettledStatus(res) == READY

NotReadyError(c) ==
    [kind |-> "analysis-error", client |-> c, code |-> "INTERNAL_ERROR",
     message |-> "Servidor no esta listo para procesar."]

AnalysisResult(c, res) ==
    [kind |-> "analysis-result", client |-> c, success |-> res.success,
     payload |-> res.result]

NoResult == [success |-> FALSE, code |-> "", message |-> "", result |-> Undefined]

\* identity of a new pending processImageFromSocket call: the first free slot
FreeSlot(fs) ==
    CHOOSE n \in 1..(Cardinality(fs) + 1) : \A f \in fs : f.id # n

\* a frame right after the synchronous part of processImageFromSocket
NewFrame(n, c, img) ==
    LET msg == ValidateImageData(img) IN
    IF msg # ""
      THEN [id |-> n, client |-> c, phase |-> "resolved", kind |-> "", decodable |-> FALSE,
            res |-> FailureRecord(ValidationErrorCode(msg), msg)]
      ELSE [id |-> n, client |-> c, phase |-> "converting", kind |-> img.kind,
            decodable |-> img.decodable, res |-> NoResult]

\* initializeSocketServer: `let serverStatus = SERVER_STATUS.READY`
InitSocketServer ==
    /\ serverStatus = READY
    /\ frames = {}
    /\ messageCount = 0

----------------------------------------------------------------------------
(* The reply parser of detectPlate (imageController.js).  A text is a sequence
   of one-character strings over Alphabet; a parsed JSON value is kept as its
   canonical text (no white space), so that values compare as texts. *)

Letters == {"A", "B", "C", "D"}

Digits == {"0", "1", "2", "3"}

\* white space of the alphabet: what \s, trim() and JSON.parse skip
WhiteSpace == {" ", "\n"}

\* the backtick character, written ~ (a TLA+ string cannot hold a backtick)
Backtick == "~"

Alphabet ==
    Letters \cup Digits \cup WhiteSpace \cup {"[", "]", ",", "\"", Backtick, "@", "j", "s", "o", "n"}

\* the code-fence marker, three backticks
Fence == <<Backtick, Backtick, Backtick>>

JsonFence == Fence \o <<"j", "s", "o", "n">>

\* pat occurs in s at index i
IsAt(s, i, pat) ==
    /\ i + Len(pat) - 1 <= Len(s)
    /\ SubSeq(s, i, i + Len(pat) - 1) = pat

\* index of the first occurrence of pat in s, 0 when there is none
FirstIndex(s, pat) ==
    LET hits == {i \in 1..Len(s) : IsAt(s, i, pat)} IN
    IF hits = {} THEN 0 ELSE CHOOSE i \in hits : \A j \in hits : i <= j

\* first index from i on that holds no white space (Len(s) + 1 when none)
SkipWs(s, i) ==
    CHOOSE j \in i..(Len(s) + 1) :
        /\ \A k \in i..(j - 1) : s[k] \in WhiteSpace
        /\ j = Len(s) + 1 \/ s[j] \notin WhiteSpace

\* s without its elements i .. j-1
Remove(s, i, j) == SubSeq(s, 1, i - 1) \o SubSeq(s, j, Len(s))

\* .replace(/\n/g, "")
RemoveNewlines(s) == SelectSeq(s, LAMBDA c : c # "\n")

\* .replace(/~~~json\s*/, ""): the first tagged fence and the white space after it
RemoveJsonFence(s) ==
    LET i == FirstIndex(s, JsonFence) IN
    IF i = 0 THEN s ELSE Remove(s, i, SkipWs(s, i + Len(JsonFence)))

\* .replace(/~~~/, ""): the first fence marker
RemoveFence(s) ==
    LET i == FirstIndex(s, Fence) IN
    IF i = 0 THEN s ELSE Remove(s, i, i + Len(Fence))

\* .trim()
Trim(s) ==
    LET a == SkipWs(s, 1) IN
    IF a > Len(s) THEN <<>>
    ELSE LET b == CHOOSE j \in a..Len(s) :
                      /\ s[j] \notin WhiteSpace
                      /\ \A k \in (j + 1)..Len(s) : s[k] \in WhiteSpace
         IN SubSeq(s, a, b)

\* the chain of replace calls and trim applied to the upstream reply
Clean(text) == Trim(RemoveFence(RemoveJsonFence(RemoveNewlines(text))))

\* JSON.parse throws
JsonFail == [ok |-> FALSE, isArr |-> FALSE, val |-> <<>>, elems |-> <<>>, pos |-> 0]

\* a scalar read up to (not including) index pos
Scalar(val, pos) == [ok |-> TRUE, isArr |-> FALSE, val |-> val, elems |-> <<>>, pos |-> pos]

RECURSIVE JoinElems(_)
JoinElems(elems) ==
    IF elems = <<>> THEN <<>>
    ELSE IF Len(elems) = 1 THEN elems[1]
    ELSE elems[1] \o <<",">> \o JoinElems(Tail(elems))

\* an array read up to (not including) index pos
ArrayValue(elems, pos) ==
    [ok |-> TRUE, isArr |-> TRUE, val |-> <<"[">> \o JoinElems(elems) \o <<"]">>,
     elems |-> elems, pos |-> pos]

\* a JSON string starting at the quote s[i] (no escapes in Alphabet)
ParseString(s, i) ==
    LET closing == {j \in (i + 1)..Len(s) : s[j] = "\""} IN
    IF closing = {} THEN JsonFail
    ELSE LET j == CHOOSE j \in closing : \A k \in closing : j <= k IN
         Scalar(SubSeq(s, i, j), j + 1)

\* a JSON number starting at the digit s[i]: 0, or a digit run without a
\* leading 0 (Alphabet has no sign, fraction or exponent characters)
ParseNumber(s, i) ==
    IF s[i] = "0" THEN Scalar(<<"0">>, i + 1)
    ELSE LET e == CHOOSE j \in (i + 1)..(Len(s) + 1) :
                      /\ \A k \in i..(j - 1) : s[k] \in Digits
                      /\ j = Len(s) + 1 \/ s[j] \notin Digits
         IN Scalar(SubSeq(s, i, e - 1), e)

\* true, false, null
ParseLiteral(s, i) ==
    LET lits == {<<"t", "r", "u", "e">>, <<"f", "a", "l", "s", "e">>, <<"n", "u", "l", "l">>}
        hit == {l \in lits : IsAt(s, i, l)} IN
    IF hit = {} THEN JsonFail
    ELSE LET l == CHOOSE l \in hit : TRUE IN Scalar(l, i + Len(l))

RECURSIVE ParseValue(_, _), ParseElements(_, _, _)
\* the JSON value whose first character is s[i]
ParseValue(s, i) ==
    IF i > Len(s) THEN JsonFail
    ELSE IF s[i] = "[" THEN
        LET j == SkipWs(s, i + 1) IN
        IF j <= Len(s) /\ s[j] = "]" THEN ArrayValue(<<>>, j + 1)
        ELSE ParseElements(s, j, <<>>)
    ELSE IF s[i] = "\"" THEN ParseString(s, i)
    ELSE IF s[i] \in Digits THEN ParseNumber(s, i)
    ELSE ParseLiteral(s, i)

\* the elements of an array from s[i] on, acc holding those already read
ParseElements(s, i, acc) ==
    LET e == ParseValue(s, i) IN
    IF ~e.ok THEN JsonFail
    ELSE LET j == SkipWs(s, e.pos)
             acc2 == Append(acc, e.val) IN
         IF j > Len(s) THEN JsonFail
         ELSE IF s[j] = "," THEN ParseElements(s, SkipWs(s, j + 1), acc2)
         ELSE IF s[j] = "]" THEN ArrayValue(acc2, j + 1)
         ELSE JsonFail

\* JSON.parse(s): one value, white space around it, nothing else
JsonParse(s) ==
    LET r == ParseValue(s, SkipWs(s, 1)) IN
    IF r.ok /\ SkipWs(s, r.pos) > Len(s) THEN r ELSE JsonFail

\* /[A-Z]{3}\d{3}/ matches at index i
PlateAt(s, i) ==
    /\ i + 5 <= Len(s)
    /\ \A k \in i..(i + 2) : s[k] \in Letters
    /\ \A k \in (i + 3)..(i + 5) : s[k] \in Digits

\* a matched substring as a JSON string value
Quoted(m) == <<"\"">> \o m \o <<"\"">>

\* bug variant: the regex without the g flag, the first match only
RECURSIVE PlateMatches_first(_, _)
PlateMatches_first(s, i) ==
    IF i + 5 > Len(s) THEN <<>>
    ELSE IF PlateAt(s, i) THEN <<Quoted(SubSeq(s, i, i + 5))>>
    ELSE PlateMatches_first(s, i + 1)

\* reply.match(/[A-Z]{3}\d{3}/g) from index i on: matches from left to right,
\* the scan going on behind each match; <<>> stands for null
RECURSIVE PlateMatches(_, _)
PlateMatches(s, i) ==
    IF i + 5 > Len(s) THEN <<>>
    ELSE IF PlateAt(s, i) THEN <<Quoted(SubSeq(s, i, i + 5))>> \o PlateMatches(s, i + 6)
    ELSE PlateMatches(s, i + 1)

\* bug variant: the sentinel is not recognised
SkipsParsing_emptyOnly(r) == r = <<>>

\* (reply && reply !== "@") negated
SkipsParsing(r) == r = <<>> \/ r = <<"@">>

\* bug variant: no inner try/catch, the parse error leaves the parser
OnParseError_rethrow(r) == [list |-> <<>>, path |-> "threw"]

\* the catch block of JSON.parse
OnParseError(r) == [list |-> PlateMatches(r, 1), path |-> "regex"]

\* lines 48-73: the list detectPlate answers with for an upstream reply text,
\* and the path that produced it
ProcessReply(text) ==
    LET r == Clean(text) IN
    IF SkipsParsing(r) THEN [list |-> <<>>, path |-> "skipped"]
    ELSE LET p == JsonParse(r) IN
         IF p.ok THEN [list |-> IF p.isArr THEN p.elems ELSE <<p.val>>, path |-> "json"]
         ELSE OnParseError(r)

----------------------------------------------------------------------------
\* an upload request that has not arrived yet
NoUpload == [phase |-> "idle", task |-> 0, responses |-> 0]

InitDispatcher ==
    /\ requestCount = 0
    /\ activeRequests = 0
    /\ requestQueue = <<>>
    /\ successfulRequests = 0
    /\ failedRequests = 0
    /\ processingTimes = <<>>
    /\ pc = [t \in Tasks |-> "idle"]
    /\ via = [t \in Tasks |-> "none"]
    /\ result = [t \in Tasks |-> "none"]
    /\ starts = [t \in Tasks |-> 0]
    /\ settles = [t \in Tasks |-> 0]
    /\ startLog = <<>>
    /\ InitSocketServer
    /\ uploads = [r \in Uploads |-> NoUpload]
    /\ alive = TRUE
    /\ reply = NoReply

\* module load of geminiService.js
Init ==
    /\ currentKeyIndex = 0
    /\ currentVersionIndex = 0
    /\ InitDispatcher
    /\ input = NoInput

\* getGeminiReply(buffer, options): synchronous part of one submission.
GetGeminiReply(t) ==
    /\ pc[t] = "idle"
    /\ t = requestCount + 1
    /\ requestCount' = requestCount + 1
    /\ IF CanProcessImmediately(activeRequests)
         THEN /\ activeRequests' = activeRequests + 1
              /\ StartCall(t)
              /\ pc' = [pc EXCEPT ![t] = "fetching"]
              /\ via' = [via EXCEPT ![t] = "direct"]
              /\ UNCHANGED requestQueue
         ELSE /\ requestQueue' = AfterPush(requestQueue, t)
              /\ pc' = [pc EXCEPT ![t] = "queued"]
              /\ via' = [via EXCEPT ![t] = "queue"]
              /\ NoCall
              /\ UNCHANGED activeRequests
    /\ reply' = NoReply
    /\ UNCHANGED <<successfulRequests, failedRequests, processingTimes, result, settles>>

\* bug variant: a full window drops the entry just pushed (pop for shift)
Recorded_pop(window, ms) ==
    IF Len(window) + 1 > MaxProcessingTimes THEN window ELSE Append(window, ms)

\* processingTimes.push(processingTime); if (length > 100) processingTimes.shift()
Recorded(window, ms) ==
    IF Len(window) + 1 > MaxProcessingTimes THEN Tail(Append(window, ms))
    ELSE Append(window, ms)

\* executeGeminiRequest after `await getGeminiReplyInternal(...)`: the upstream
\* call answered (ok) or failed (fetch rejected, non-success status, bad body),
\* ms after it was started.
ExecuteGeminiRequestReturns(t, ok, ms) ==
    /\ pc[t] = "fetching"
    /\ IF ok
         THEN /\ processingTimes' = Recorded(processingTimes, ms)
              /\ successfulRequests' = successfulRequests + 1
              /\ UNCHANGED failedRequests
         ELSE /\ failedRequests' = failedRequests + 1
              /\ UNCHANGED <<successfulRequests, processingTimes>>
    /\ result' = [result EXCEPT ![t] = IF ok THEN "ok" ELSE "err"]
    /\ pc' = [pc EXCEPT ![t] = "returned"]
    /\ reply' = NoReply
    /\ UNCHANGED <<currentKeyIndex, currentVersionIndex, requestCount, activeRequests,
                   requestQueue, via, starts, settles, startLog>>

\* `activeRequests--; processQueue();` run by task t's finally block
ReleaseAndProcessQueue(t, pcDone) ==
    LET active == activeRequests - 1 IN
    IF ProcessQueueStarts(requestQueue, active)
      THEN LET h == ShiftedEntry(requestQueue) IN
           /\ requestQueue' = AfterShift(requestQueue)
           /\ activeRequests' = active + 1
           /\ StartCall(h)
           /\ pc' = [pcDone EXCEPT ![h] = "fetching"]
      ELSE /\ activeRequests' = active
           /\ NoCall
           /\ pc' = pcDone
           /\ UNCHANGED requestQueue

\* getGeminiReply, direct path: the finally block, then the async function's
\* promise settles with the result or the rethrown error.
GetGeminiReplyFinally(t) ==
    /\ pc[t] = "returned"
    /\ via[t] = "direct"
    /\ ReleaseAndProcessQueue(t, [pc EXCEPT ![t] = "done"])
    /\ settles' = [settles EXCEPT ![t] = @ + 1]
    /\ reply' = Settled(t, result[t])
    /\ result' = [result EXCEPT ![t] = "none"]
    /\ via' = [via EXCEPT ![t] = "none"]
    /\ UNCHANGED <<requestCount, successfulRequests, failedRequests, processingTimes>>

\* processQueue: `.then(resolve).catch(reject)` of a task taken from the queue
ProcessQueueSettle(t) ==
    /\ pc[t] = "returned"
    /\ via[t] = "queue"
    /\ settles' = [settles EXCEPT ![t] = @ + 1]
    /\ pc' = [pc EXCEPT ![t] = "settled"]
    /\ reply' = Settled(t, result[t])
    /\ result' = [result EXCEPT ![t] = "none"]
    /\ UNCHANGED <<currentKeyIndex, currentVersionIndex, requestCount, activeRequests,
                   requestQueue, successfulRequests, failedRequests, processingTimes,
                   via, starts, startLog>>

\* processQueue: `.finally(() => { activeRequests--; processQueue(); })`
ProcessQueueFinally(t) ==
    /\ pc[t] = "settled"
    /\ via[t] = "queue"
    /\ ReleaseAndProcessQueue(t, [pc EXCEPT ![t] = "done"])
    /\ via' = [via EXCEPT ![t] = "none"]
    /\ reply' = NoReply
    /\ UNCHANGED <<requestCount, successfulRequests, failedRequests, processingTimes, result, settles>>

RECURSIVE Sum(_)
Sum(w) == IF w = <<>> THEN 0 ELSE Head(w) + Sum(Tail(w))

\* Math.round(mean of processingTimes), 0 for an empty window
AvgProcessingTime(w) ==
    IF Len(w) = 0 THEN 0 ELSE (2 * Sum(w) + Len(w)) \div (2 * Len(w))

\* getRotationStats(): read-only snapshot
RotationStats ==
    [kind |-> "stats",
     avgProcessingTime |-> AvgProcessingTime(processingTimes),
     totalRequests |-> requestCount,
     successfulRequests |-> successfulRequests,
     failedRequests |-> failedRequests,
     activeRequests |-> activeRequests,
     queuedRequests |-> Len(requestQueue),
     currentKeyIndex |-> currentKeyIndex + 1,
     currentVersionIndex |-> currentVersionIndex,
     totalKeys |-> NumKeys,
     totalVersions |-> NumVersions,
     maxConcurrentRequests |-> MAX_CONCURRENT_REQUESTS]

GetRotationStats ==
    /\ reply' = RotationStats
    /\ UNCHANGED dispVars
    /\ UNCHANGED <<streamVars, restVars>>

Submit == (\E t \in Tasks : GetGeminiReply(t)) /\ UNCHANGED <<streamVars, restVars>>

\* an upstream call answers or fails; every call is taken to last 1 ms (the
\* latency reaches nothing but the window, which MetricsSpec studies)
Complete ==
    /\ \E t \in Tasks : \E ok \in BOOLEAN : ExecuteGeminiRequestReturns(t, ok, 1)
    /\ UNCHANGED <<streamVars, restVars>>

DirectFinally == (\E t \in Tasks : GetGeminiReplyFinally(t)) /\ UNCHANGED <<streamVars, restVars>>

QueuedSettle == (\E t \in Tasks : ProcessQueueSettle(t)) /\ UNCHANGED <<streamVars, restVars>>

QueuedFinally == (\E t \in Tasks : ProcessQueueFinally(t)) /\ UNCHANGED <<streamVars, restVars>>

Next ==
    \/ Submit
    \/ Complete
    \/ DirectFinally
    \/ QueuedSettle
    \/ QueuedFinally
    \/ GetRotationStats

Spec == Init /\ [][Next]_vars

\* Every started upstream call eventually answers, and a promise continuation
\* that is ready to run is run by the event loop.
Fairness ==
    \A t \in Tasks :
        /\ WF_vars((\E ok \in BOOLEAN : ExecuteGeminiRequestReturns(t, ok, 1))
                      /\ UNCHANGED <<streamVars, restVars>>)
        /\ WF_vars(GetGeminiReplyFinally(t) /\ UNCHANGED <<streamVars, restVars>>)
        /\ WF_vars(ProcessQueueSettle(t) /\ UNCHANGED <<streamVars, restVars>>)
        /\ WF_vars(ProcessQueueFinally(t) /\ UNCHANGED <<streamVars, restVars>>)

SubmitLive == (\E t \in 1..MaxLiveTasks : GetGeminiReply(t)) /\ UNCHANGED <<streamVars, restVars>>

LiveNext ==
    \/ SubmitLive
    \/ Complete
    \/ DirectFinally
    \/ QueuedSettle
    \/ QueuedFinally
    \/ GetRotationStats

LiveSpec == Init /\ [][LiveNext]_vars /\ Fairness


----------------------------------------------------------------------------
(* The stream channel next to the dispatcher *)

\* socket.on('analyze-image') of client c: the whole synchronous handler,
\* including the synchronous start of processImageFromSocket
AnalyzeImage(c, img) ==
    /\ messageCount' = messageCount + 1
    /\ IF ~IsReady(serverStatus)
         THEN /\ reply' = NotReadyError(c)
              /\ UNCHANGED <<serverStatus, frames>>
         ELSE /\ serverStatus' = AdmittedStatus(serverStatus)
              /\ frames' = frames \cup {NewFrame(FreeSlot(frames), c, img)}
              /\ reply' = NoReply
    /\ UNCHANGED <<dispVars, restVars>>

\* processImageFromSocket after `await this._convertToBuffer(imageData)`
ConvertToBufferReturns(f) ==
    /\ f \in frames
    /\ f.phase = "converting"
    /\ frames' = (frames \ {f}) \cup
         {IF f.kind \in {"buffer", "base64"}
            THEN [f EXCEPT !.phase = "preprocessing", !.kind = ""]
            ELSE [f EXCEPT !.phase = "resolved", !.kind = "", !.decodable = FALSE,
                           !.res = FailureRecord("INVALID_FORMAT", ConvertErrorMessage)]}
    /\ reply' = NoReply
    /\ UNCHANGED <<serverStatus, messageCount>>
    /\ UNCHANGED <<dispVars, restVars>>

\* processImageFromSocket after `await this._preprocessImage(imageBuffer)`
PreprocessImageReturns(f, code) ==
    /\ f \in frames
    /\ f.phase = "preprocessing"
    /\ frames' = (frames \ {f}) \cup
         {IF f.decodable
            THEN [f EXCEPT !.phase = "detecting", !.decodable = FALSE]
            ELSE [f EXCEPT !.phase = "resolved", !.res = FailureRecord(code, PreprocessErrorMessage(code))]}
    /\ reply' = NoReply
    /\ UNCHANGED <<serverStatus, messageCount>>
    /\ UNCHANGED <<dispVars, restVars>>

\* processImageFromSocket after `await this.detectionService.detectPlate(...)`
DetectPlateReturns(f, det) ==
    /\ f \in frames
    /\ f.phase = "detecting"
    /\ frames' = (frames \ {f}) \cup {[f EXCEPT !.phase = "resolved", !.res = SuccessRecord(det)]}
    /\ reply' = NoReply
    /\ UNCHANGED <<serverStatus, messageCount>>
    /\ UNCHANGED <<dispVars, restVars>>

\* the .then callback of the handler.  processImageFromSocket resolves with a
\* success or a failure record and never rejects, so the .catch callback
\* (which also sets READY) does not run.
ThenCallback(f) ==
    /\ f \in frames
    /\ f.phase = "resolved"
    /\ reply' = AnalysisResult(f.client, f.res)
    /\ serverStatus' = SettledStatus(f.res)
    /\ frames' = frames \ {f}
    /\ UNCHANGED messageCount
    /\ UNCHANGED <<dispVars, restVars>>

Message ==
    /\ messageCount < MaxMessages
    /\ \E c \in Clients : \E img \in StreamInputs : AnalyzeImage(c, img)

Converted == \E f \in frames : ConvertToBufferReturns(f)

Preprocessed == \E f \in frames : \E code \in SharpErrorCodes : PreprocessImageReturns(f, code)

Detected == \E f \in frames : \E det \in {"plate", "noplate", "error"} : DetectPlateReturns(f, det)

FrameSettled == \E f \in frames : ThenCallback(f)

SubmitNextToStream ==
    (\E t \in StreamTasks : GetGeminiReply(t)) /\ UNCHANGED <<streamVars, restVars>>

\* The stream channel, with single-shot submissions arriving next to it whose
\* upstream calls are still pending (the stream handlers call nothing of
\* geminiService.js, so the dispatcher's completions are left to Spec).
StreamNext ==
    \/ Message
    \/ Converted
    \/ Preprocessed
    \/ Detected
    \/ FrameSettled
    \/ SubmitNextToStream

StreamSpec == Init /\ [][StreamNext]_vars

----------------------------------------------------------------------------
(* The reply parser on its own: the upstream reply is any text of
   ParserInputs and the parsing lines of detectPlate are applied to it. *)

ABC123 == <<"A", "B", "C", "1", "2", "3">>

BCD230 == <<"B", "C", "D", "2", "3", "0">>

AB12 == <<"A", "B", "1", "2">>

\* what reply texts are put together from
Segments ==
    {<<"[">>, <<"]">>, <<",">>, <<"\"">>, <<"@">>, <<" ">>, <<"\n">>, <<"0">>,
     <<"1", "2">>, <<"1", "2", "3">>, <<"A", "B", "C">>, ABC123, Quoted(ABC123),
     Quoted(AB12), Fence}

RECURSIVE Flatten(_)
Flatten(segs) == IF segs = <<>> THEN <<>> ELSE Head(segs) \o Flatten(Tail(segs))

\* longer replies of the kinds the upstream model gives
LongReplies ==
    {<<"[">> \o Quoted(ABC123) \o <<"]">>,
     <<"[">> \o Quoted(ABC123) \o <<",", " ">> \o Quoted(BCD230) \o <<"]">>,
     <<"[">> \o Quoted(AB12) \o <<"]">>,
     <<"[", "1", "2", ",", "0", "]">>,
     <<"[", "[", "1", "2", "]", ",">> \o Quoted(AB12) \o <<"]">>,
     <<"[", "1", "2", ",", "]">>,
     <<"[", "]">>,
     <<"0", "1", "2">>,
     ABC123 \o <<" ", "@", " ">> \o BCD230,
     <<"A", "B", "C", "\n", "1", "2", "3">>,
     <<"[">> \o Quoted(<<"A", "B", "C", "\n", "1", "2", "3">>) \o <<"]">>}

ReplyCores ==
    LongReplies \cup {Flatten(segs) : segs \in UNION {[1..n -> Segments] : n \in 0..MaxSegs}}

\* what the upstream model puts around its answer: nothing, a tagged fence on
\* lines of its own, an untagged fence, white space, an opening tagged fence
\* only, a closing fence only
Wrappings ==
    {[pre |-> <<>>, suf |-> <<>>],
     [pre |-> JsonFence \o <<"\n">>, suf |-> <<"\n">> \o Fence],
     [pre |-> Fence \o <<"\n">>, suf |-> <<"\n">> \o Fence],
     [pre |-> <<" ", "\n">>, suf |-> <<"\n", " ">>],
     [pre |-> JsonFence \o <<" ">>, suf |-> <<>>],
     [pre |-> <<>>, suf |-> Fence]}

ParserInputs ==
    {[kind |-> "reply", pre |-> w.pre, core |-> c, suf |-> w.suf] :
        w \in Wrappings, c \in ReplyCores}

\* the text getGeminiReply resolved with
ReplyText(in) == in.pre \o in.core \o in.suf

ParserInit ==
    /\ currentKeyIndex = 0
    /\ currentVersionIndex = 0
    /\ InitDispatcher
    /\ input \in ParserInputs

\* detectPlate, lines 48-73, applied to the reply
ParseReply ==
    /\ input.kind = "reply"
    /\ reply = NoReply
    /\ reply' = [kind |-> "parsed", list |-> ProcessReply(ReplyText(input)).list,
                 path |-> ProcessReply(ReplyText(input)).path]
    /\ UNCHANGED <<dispVars, streamVars, restVars>>

ParserNext == ParseReply

ParserSpec == ParserInit /\ [][ParserNext]_vars

----------------------------------------------------------------------------
(* The stream channel and the dispatcher side by side in one process: frames
   arrive on the socket while the upload handler submits single-shot tasks
   (imageController.js line 46) and their upstream calls complete. *)

\* the frames sent next to the uploads: one that passes every stage and one
\* that fails validation
GateInputs ==
    {img \in StreamInputs :
        \/ ~img.hasData
        \/ img.hasData /\ img.kind = "buffer" /\ img.format = "image/jpeg"
              /\ img.size = MAX_SIZE /\ img.decodable}

GateMessage ==
    /\ messageCount < MaxMessages
    /\ \E c \in Clients : \E img \in GateInputs : AnalyzeImage(c, img)

GateNext ==
    \/ GateMessage
    \/ Converted
    \/ Preprocessed
    \/ Detected
    \/ FrameSettled
    \/ SubmitNextToStream
    \/ Complete
    \/ DirectFinally
    \/ QueuedSettle
    \/ QueuedFinally

GateSpec == Init /\ [][GateNext]_vars

----------------------------------------------------------------------------
(* The single-shot upload handler detectPlate (imageController.js) on top of
   the dispatcher.  uploads[r] follows request r through the pieces of the
   async function: transcoding (await sharp), awaiting (await getGeminiReply),
   resolved / resolvedOther / rejected (the awaited promise has settled with a
   text, with a value that is no string, with an error), responded. *)

\* texts `await getGeminiReply(...)` can resolve with: a fenced list, the
\* sentinel, plain words with a plate
UploadTexts ==
    {JsonFence \o <<"\n", "[">> \o Quoted(ABC123) \o <<"]", "\n">> \o Fence,
     <<"@">>,
     <<"A", "B", " ">> \o ABC123}

\* res.status(400).send({ error })
BadRequestResponse(r) ==
    [kind |-> "http", upload |-> r, status |-> 400, error |-> TRUE,
     hasArrayReply |-> FALSE, arrayReply |-> <<>>]

\* res.status(200).json({ arrayReply })
OkResponse(r, list) ==
    [kind |-> "http", upload |-> r, status |-> 200, error |-> FALSE,
     hasArrayReply |-> TRUE, arrayReply |-> list]

\* bug variant: the failure is answered with a server-error status
CatchResponse_500(r) ==
    [kind |-> "http", upload |-> r, status |-> 500, error |-> TRUE,
     hasArrayReply |-> TRUE, arrayReply |-> <<>>]

\* the outer catch block: res.status(200).json({ error, arrayReply: [] })
CatchResponse(r) ==
    [kind |-> "http", upload |-> r, status |-> 200, error |-> TRUE,
     hasArrayReply |-> TRUE, arrayReply |-> <<>>]

\* upload r answered with resp
Responded(r, resp) ==
    /\ uploads' = [uploads EXCEPT ![r] = [NoUpload EXCEPT !.phase = "responded",
                                                          !.responses = uploads[r].responses + 1]]
    /\ reply' = resp

\* detectPlate(req, res) up to its first await: the file test, then sharp
DetectPlate(r, hasFile) ==
    /\ uploads[r].phase = "idle"
    /\ \A q \in Uploads : q < r => uploads[q].phase # "idle"
    /\ IF hasFile
         THEN /\ uploads' = [uploads EXCEPT ![r].phase = "transcoding"]
              /\ reply' = NoReply
         ELSE Responded(r, BadRequestResponse(r))
    /\ UNCHANGED <<dispVars, streamVars, alive, input>>

\* `await sharp(...).toBuffer()` settles: on success getGeminiReply is called
\* (its synchronous part runs here), on failure the catch block answers
TranscodeReturns(r, ok) ==
    /\ uploads[r].phase = "transcoding"
    /\ IF ok
         THEN \E t \in Tasks :
                  /\ GetGeminiReply(t)
                  /\ uploads' = [uploads EXCEPT ![r].phase = "awaiting", ![r].task = t]
         ELSE /\ Responded(r, CatchResponse(r))
              /\ UNCHANGED dispVars
    /\ UNCHANGED <<streamVars, alive, input>>

\* the promise of task t settles: the upload awaiting it becomes ready to
\* resume; isString tells whether the upstream candidate's text, which the
\* promise resolves with, is a string (a malformed upstream body can hold
\* any JSON value there)
Notified(t, isString) ==
    [r \in Uploads |->
        IF uploads[r].phase = "awaiting" /\ uploads[r].task = t
          THEN [uploads[r] EXCEPT !.phase = IF result[t] # "ok" THEN "rejected"
                                            ELSE IF isString THEN "resolved"
                                            ELSE "resolvedOther"]
          ELSE uploads[r]]

\* detectPlate after `await getGeminiReply(...)`: lines 47-76, or the catch
\* block when the promise was rejected or the reply cannot be processed
\* (reply.replace on a value that is no string throws)
DetectPlateResumes(r, text) ==
    /\ uploads[r].phase \in {"resolved", "resolvedOther", "rejected"}
    /\ IF uploads[r].phase = "resolved"
         THEN Responded(r, OkResponse(r, ProcessReply(text).list))
         ELSE Responded(r, CatchResponse(r))
    /\ UNCHANGED <<dispVars, streamVars, alive, input>>

Arrives == \E r \in Uploads : \E hasFile \in BOOLEAN : DetectPlate(r, hasFile)

Transcoded == \E r \in Uploads : \E ok \in BOOLEAN : TranscodeReturns(r, ok)

UploadDirectFinally ==
    \E t \in Tasks : \E isString \in IF result[t] = "ok" THEN BOOLEAN ELSE {TRUE} :
        /\ GetGeminiReplyFinally(t)
        /\ uploads' = Notified(t, isString)
        /\ UNCHANGED <<streamVars, alive, input>>

UploadQueuedSettle ==
    \E t \in Tasks : \E isString \in IF result[t] = "ok" THEN BOOLEAN ELSE {TRUE} :
        /\ ProcessQueueSettle(t)
        /\ uploads' = Notified(t, isString)
        /\ UNCHANGED <<streamVars, alive, input>>

Resumed == \E r \in Uploads : \E text \in UploadTexts : DetectPlateResumes(r, text)

UploadNext ==
    \/ Arrives
    \/ Transcoded
    \/ Complete
    \/ UploadDirectFinally
    \/ UploadQueuedSettle
    \/ QueuedFinally
    \/ Resumed

UploadSpec == Init /\ [][UploadNext]_vars

----------------------------------------------------------------------------
(* The dispatcher in a server process that can be shut down.  app.js and the
   modules it loads register no handler for SIGINT, SIGTERM or exit, so a
   shutdown ends the process by Node's default: no code of the program runs. *)

\* the process is terminated; nothing of the program runs any more
ProcessExit ==
    /\ alive
    /\ alive' = FALSE
    /\ UNCHANGED <<dispVars, streamVars, uploads, input, reply>>

Running == alive /\ Next

ShutdownNext ==
    \/ Running
    \/ ProcessExit

ShutdownSpec == Init /\ [][ShutdownNext]_vars

----------------------------------------------------------------------------
(* _validateImageData on its own: the message is any payload description of
   PayloadInputs.  length is the number of bytes the payload really holds,
   size the number the sender declared (0: none declared). *)

\* CONNECTION.maxHttpBufferSize (1e7): the largest message socket.io lets in
MaxHttpBufferSize == 10000000

PayloadInputs ==
    {in \in [kind : {"image"},
             data : {"none", "buffer", "base64"},
             length : {0, 1024, MAX_SIZE, MAX_SIZE + 1},
             format : {"", "image/jpeg", "image/gif"},
             size : {0, 1024, MAX_SIZE, MAX_SIZE + 1}] :
        /\ in.data = "none" => in.length = 0
        /\ in.length <= MaxHttpBufferSize}

\* `!imageData || !imageData.data` negated: a missing value and the empty
\* string are falsy, a Buffer is truthy whatever its length
HasData(in) == in.data # "none" /\ ~(in.data = "base64" /\ in.length = 0)

\* the fields of the message _validateImageData looks at
ImageOf(in) ==
    [hasData |-> HasData(in), format |-> in.format, size |-> in.size,
     kind |-> in.data, decodable |-> in.length > 0]

ValidationInit ==
    /\ currentKeyIndex = 0
    /\ currentVersionIndex = 0
    /\ InitDispatcher
    /\ input \in PayloadInputs

\* _validateImageData(imageData)
Validate ==
    /\ input.kind = "image"
    /\ reply = NoReply
    /\ reply' = [kind |-> "validation",
                 isValid |-> ValidateImageData(ImageOf(input)) = "",
                 error |-> ValidateImageData(ImageOf(input))]
    /\ UNCHANGED <<dispVars, streamVars, restVars>>

ValidationNext == Validate

ValidationSpec == ValidationInit /\ [][ValidationNext]_vars

----------------------------------------------------------------------------
(* _preprocessImage on its own: the buffer is a decodable image of any of the
   widths and heights of ImageSizes. *)

\* IMAGE_CONFIG.EXPECTED_DIMENSIONS.width
ExpectedSize == 300

ImageSizes == {1, 150, 299, 300, 301, 500, 1000}

FrameInputs ==
    [kind : {"frame"}, width : ImageSizes, height : ImageSizes,
     format : {"jpeg", "png", "webp"}]

\* metadata.width !== expectedSize || metadata.height !== expectedSize
NeedsResize(w, h) == w # ExpectedSize \/ h # ExpectedSize

\* sharp's resize(tw, th, { fit: 'fill', withoutEnlargement }): the image is
\* stretched to both dimensions, its aspect ratio ignored and nothing cut
\* off; withoutEnlargement keeps a dimension that is below its target.
\* scaleX and scaleY are the factors as pairs <<output, input>>.
ResizeFill(w, h, tw, th, withoutEnlargement) ==
    LET ow == IF withoutEnlargement /\ w < tw THEN w ELSE tw
        oh == IF withoutEnlargement /\ h < th THEN h ELSE th
    IN [width |-> ow, height |-> oh, scaleX |-> <<ow, w>>, scaleY |-> <<oh, h>>,
        cropped |-> FALSE]

\* the frame _preprocessImage returns for a w x h image of format fmt
PreprocessedFrame(w, h, fmt) ==
    LET out == ResizeFill(w, h, ExpectedSize, ExpectedSize, ~NeedsResize(w, h)) IN
    [kind |-> "frame", width |-> out.width, height |-> out.height,
     scaleX |-> out.scaleX, scaleY |-> out.scaleY, cropped |-> out.cropped,
     format |-> "jpeg", quality |-> IF fmt = "webp" THEN 95 ELSE 90]

NormalizerInit ==
    /\ currentKeyIndex = 0
    /\ currentVersionIndex = 0
    /\ InitDispatcher
    /\ input \in FrameInputs

\* _preprocessImage(imageBuffer)
PreprocessImage ==
    /\ input.kind = "frame"
    /\ reply = NoReply
    /\ reply' = PreprocessedFrame(input.width, input.height, input.format)
    /\ UNCHANGED <<dispVars, streamVars, restVars>>

NormalizerNext == PreprocessImage

NormalizerSpec == NormalizerInit /\ [][NormalizerNext]_vars

----------------------------------------------------------------------------
(* The latency window: submissions made one after the other, each call
   answering after any of the latencies of Latencies. *)

Latencies == 1..MaxLatency

\* one more upload arrives once the one before it has been answered
SubmitNextMetric ==
    /\ activeRequests = 0
    /\ \A t \in Tasks : pc[t] \in {"idle", "done"}
    /\ \E t \in 1..MaxMetricTasks : GetGeminiReply(t)
    /\ UNCHANGED <<streamVars, restVars>>

CompleteAfter ==
    /\ \E t \in Tasks : \E ok \in BOOLEAN : \E ms \in Latencies :
           ExecuteGeminiRequestReturns(t, ok, ms)
    /\ UNCHANGED <<streamVars, restVars>>

MetricsNext ==
    \/ SubmitNextMetric
    \/ CompleteAfter
    \/ DirectFinally
    \/ GetRotationStats

MetricsSpec == Init /\ [][MetricsNext]_vars

----------------------------------------------------------------------------
(* getNextEndpoint on its own: the cursor starts on any of its positions and
   the function is applied MaxCalls times. *)

RotationInit ==
    /\ currentKeyIndex \in 0..(NumKeys - 1)
    /\ currentVersionIndex \in 0..(NumVersions - 1)
    /\ InitDispatcher
    /\ input = NoInput

RotationCall ==
    /\ Len(startLog) < MaxCalls
    /\ GetNextEndpoint
    /\ UNCHANGED <<requestCount, activeRequests, requestQueue, successfulRequests,
                   failedRequests, processingTimes, pc, via, result, starts, settles,
                   reply>>
    /\ UNCHANGED <<streamVars, restVars>>

RotationNext == RotationCall

RotationSpec == RotationInit /\ [][RotationNext]_vars

----------------------------------------------------------------------------
(* Properties of the dispatcher *)

CyclePeriod == NumKeys * NumVersions

Min(a, b) == IF a < b THEN a ELSE b

Max(a, b) == IF a > b THEN a ELSE b

\* tasks whose upstream call has been issued and has not answered yet
Fetching == {t \in Tasks : pc[t] = "fetching"}

\* tasks holding a concurrency slot (call issued, finally block not yet run)
SlotHolders == {t \in Tasks : pc[t] \in {"fetching", "returned", "settled"}}

\* tasks whose upstream call gets issued by the step
NewlyStarted == {t \in Tasks : pc[t] # "fetching" /\ pc'[t] = "fetching"}

\* C1: in every reachable state the number of upstream calls in flight, and
\* the activeRequests counter that tracks the occupied slots, are at most
\* MAX_CONCURRENT_REQUESTS.
C1_ActiveNeverExceedsCap ==
    /\ activeRequests <= MAX_CONCURRENT_REQUESTS
    /\ Cardinality(Fetching) <= MAX_CONCURRENT_REQUESTS
    /\ Cardinality(SlotHolders) = activeRequests

\* the cap is reached while more work has been submitted
C1_Witness ==
    /\ activeRequests = MAX_CONCURRENT_REQUESTS
    /\ Cardinality(Fetching) = MAX_CONCURRENT_REQUESTS
    /\ Len(requestQueue) >= 2

\* C2: every submitted task has had exactly one upstream call started for it
\* unless it is still waiting in the backlog (then none), no task has two, no
\* promise is settled twice, and a task is outside the backlog only if started.
C2_OneCallOneSettle ==
    \A t \in Tasks :
        /\ starts[t] <= 1
        /\ settles[t] <= 1
        /\ (t <= requestCount) = (pc[t] # "idle")
        /\ (pc[t] = "queued") = (\E i \in 1..Len(requestQueue) : requestQueue[i] = t)
        /\ (pc[t] \in {"idle", "queued"}) => (starts[t] = 0 /\ settles[t] = 0)
        /\ (pc[t] \in {"fetching", "returned"}) => (starts[t] = 1 /\ settles[t] = 0)
        /\ (pc[t] \in {"settled", "done"}) => (starts[t] = 1 /\ settles[t] = 1)

\* a task that waited in the backlog has been started once and settled once,
\* and so has a task that was started directly
C2_Witness ==
    \E t, u \in Tasks :
        /\ pc[t] = "settled" /\ via[t] = "queue" /\ starts[t] = 1 /\ settles[t] = 1
        /\ pc[u] = "done" /\ starts[u] = 1 /\ settles[u] = 1

\* C3: every submitted task is eventually resolved or rejected, provided every
\* started upstream call eventually answers (fairness of LiveSpec).
C3_EveryTaskSettles ==
    \A t \in Tasks : (pc[t] \in {"queued", "fetching"}) ~> (settles[t] = 1)

\* all submissions, of which some had to wait in the backlog, are finished
C3_Witness ==
    /\ requestCount = MaxLiveTasks
    /\ \A t \in 1..MaxLiveTasks : pc[t] = "done" /\ settles[t] = 1
    /\ failedRequests > 0 /\ successfulRequests > 0
    /\ requestQueue = <<>>
    /\ activeRequests = 0

\* C4: the backlog is served first-in first-out.  Task ids are given in
\* submission order, so a < b means a was enqueued before b: while a waits in
\* the backlog no later b leaves it, and a task leaves the backlog only by
\* having its upstream call started.
C4_FifoStep ==
    /\ \A a, b \in Tasks :
          (a < b /\ pc[a] = "queued" /\ pc[b] = "queued") => pc'[b] = "queued"
    /\ \A a \in Tasks :
          (pc[a] = "queued" /\ pc'[a] # "queued") =>
              (pc'[a] = "fetching" /\ starts'[a] = starts[a] + 1)

C4_BacklogIsFifo == [][C4_FifoStep]_vars

\* an earlier backlog entry has been started while a later one still waits
C4_Witness ==
    \E a, b \in Tasks :
        a < b /\ via[a] = "queue" /\ pc[a] = "fetching" /\ pc[b] = "queued"

\* C5: a submission made below the cap is started at once and not queued, a
\* submission made at the cap is appended to the backlog and not started; as long
\* as no call has completed, N submissions leave min(N,k) active and
\* max(0,N-k) queued.
C5_SubmitStep ==
    (requestCount' = requestCount + 1) =>
        LET t == requestCount' IN
        IF activeRequests < MAX_CONCURRENT_REQUESTS
          THEN /\ pc'[t] = "fetching"
               /\ starts'[t] = 1
               /\ activeRequests' = activeRequests + 1
               /\ requestQueue' = requestQueue
          ELSE /\ activeRequests = MAX_CONCURRENT_REQUESTS
               /\ pc'[t] = "queued"
               /\ starts'[t] = 0
               /\ activeRequests' = activeRequests
               /\ requestQueue' = Append(requestQueue, t)

C5_BurstShape ==
    (successfulRequests + failedRequests = 0) =>
        /\ activeRequests = Min(requestCount, MAX_CONCURRENT_REQUESTS)
        /\ Len(requestQueue) = Max(0, requestCount - MAX_CONCURRENT_REQUESTS)

C5_AdmissionRule == [][C5_SubmitStep]_vars /\ []C5_BurstShape

\* MaxTasks submissions in a row, none completed
C5_Witness ==
    /\ requestCount = MaxTasks
    /\ successfulRequests + failedRequests = 0
    /\ activeRequests = MAX_CONCURRENT_REQUESTS
    /\ Len(requestQueue) = MaxTasks - MAX_CONCURRENT_REQUESTS

\* C6: the pairs handed out by successive getNextEndpoint calls are pairwise
\* distinct within any NumKeys*NumVersions consecutive calls, repeat with
\* exactly that period, and after that many calls the cursor is back on the
\* pair it had before them.
C6_RotationCycle ==
    /\ \A i, j \in 1..Len(startLog) :
          (i < j /\ j < i + CyclePeriod) => startLog[i] # startLog[j]
    /\ \A i \in 1..Len(startLog) :
          (i + CyclePeriod <= Len(startLog)) => startLog[i + CyclePeriod] = startLog[i]
    /\ (Len(startLog) >= CyclePeriod) =>
          EndpointPair(currentKeyIndex, currentVersionIndex)
              = startLog[Len(startLog) - CyclePeriod + 1]

\* more than one full cycle of calls has been dispatched
C6_Witness ==
    /\ Len(startLog) > CyclePeriod
    /\ startLog[CyclePeriod + 1] = startLog[1]

\* C7: the cursor moves exactly in the steps that start an upstream call, once
\* per started call, by the rule "variant + 1 modulo NumVersions; credential
\* + 1 modulo NumKeys only when the variant wrapped to 0"; every other step
\* (enqueueing, completion, settling, reading the stats) leaves it alone.
C7_CursorStep ==
    IF NewlyStarted # {}
      THEN /\ Cardinality(NewlyStarted) = 1
           /\ Len(startLog') = Len(startLog) + 1
           /\ currentVersionIndex' = (currentVersionIndex + 1) % NumVersions
           /\ currentKeyIndex' = IF currentVersionIndex' = 0
                                   THEN (currentKeyIndex + 1) % NumKeys
                                   ELSE currentKeyIndex
      ELSE /\ currentVersionIndex' = currentVersionIndex
           /\ currentKeyIndex' = currentKeyIndex
           /\ startLog' = startLog

C7_CursorAdvancesPerCall == [][C7_CursorStep]_vars

\* two calls were dispatched, one of them failed, the cursor advanced twice
\* and the stats were read without moving it
C7_Witness ==
    /\ Len(startLog) = 2
    /\ failedRequests = 1
    /\ currentVersionIndex = 0
    /\ currentKeyIndex = 1
    /\ reply.kind = "stats"

----------------------------------------------------------------------------
(* Properties of the stream status gate *)

\* C8: an 'analyze-image' message received while serverStatus is not READY is
\* answered in the same step with an analysis-error event to its sender; no
\* frame starts processing or is kept for later, the dispatcher (request
\* count, active calls, backlog) is untouched and serverStatus is unchanged.
C8_RejectStep ==
    (messageCount' = messageCount + 1 /\ serverStatus # READY) =>
        /\ reply'.kind = "analysis-error"
        /\ reply'.code = "INTERNAL_ERROR"
        /\ frames' = frames
        /\ serverStatus' = serverStatus
        /\ requestQueue' = requestQueue
        /\ requestCount' = requestCount
        /\ activeRequests' = activeRequests

C8_NotReadyIsRejected == [][C8_RejectStep]_vars

\* while a frame of one client is in the image pipeline, another client's
\* message has just been rejected; the dispatcher has a backlog of its own
C8_Witness ==
    /\ serverStatus = PROCESSING
    /\ reply.kind = "analysis-error"
    /\ requestQueue # <<>>
    /\ \E f \in frames : f.phase \in {"preprocessing", "detecting"} /\ f.client # reply.client

\* C9: admission switches READY to PROCESSING; the step in which an admitted
\* frame's result (success record or failure record) is delivered sets READY
\* in both cases; serverStatus is never ERROR or MAINTENANCE.
C9_StatusStep ==
    /\ (Cardinality(frames') > Cardinality(frames)) =>
          (serverStatus = READY /\ serverStatus' = PROCESSING)
    /\ \A f \in frames :
          (f.phase = "resolved" /\ f \notin frames') => serverStatus' = READY

C9_BackToReady == [][C9_StatusStep]_vars /\ [](serverStatus \in {READY, PROCESSING})

\* a frame that failed has been delivered and the status is READY again
C9_Witness ==
    /\ reply.kind = "analysis-result"
    /\ reply.success = FALSE
    /\ serverStatus = READY
    /\ frames = {}

\* C10: at most one stream frame is in processing at any time, and
\* serverStatus is PROCESSING exactly while there is one (READY otherwise).
C10_OneFrameAtATime ==
    /\ Cardinality(frames) <= 1
    /\ (serverStatus = PROCESSING) = (frames # {})
    /\ (serverStatus = READY) = (frames = {})

\* after earlier messages of other clients (admitted and settled, or rejected)
\* the last client's frame is the one in processing
C10_Witness ==
    /\ messageCount = MaxMessages
    /\ serverStatus = PROCESSING
    /\ \E f \in frames : f.client = NumClients /\ f.phase = "detecting"

\* C11: when the processing of an admitted frame has failed (failure record, or
\* a detection that ended in an error response), the event delivered to the
\* sender is analysis-error; analysis-result is delivered only for a
\* successfully processed frame and carries hasPlate, confidence and
\* processingTime.
C11_DeliveryStep ==
    \A f \in frames :
        (f.phase = "resolved" /\ f \notin frames') =>
            IF f.res.success /\ f.res.result.confidence # "error"
              THEN /\ reply'.kind = "analysis-result"
                   /\ reply'.client = f.client
                   /\ DOMAIN reply'.payload = {"hasPlate", "confidence", "processingTime"}
              ELSE /\ reply'.kind = "analysis-error"
                   /\ reply'.client = f.client

C11_FailureGetsErrorEvent == [][C11_DeliveryStep]_vars

\* C12: an upload that carries a file is answered exactly once, always with
\* status 200: with { error, arrayReply: [] } when transcoding failed, the
\* upstream call was rejected or the reply could not be processed, and with
\* { arrayReply } holding a list otherwise; no failure leaves the handler
\* unanswered.
C12_ResponseStep ==
    \A r \in Uploads :
        (uploads[r].phase \in {"transcoding", "resolved", "resolvedOther", "rejected"}
            /\ uploads'[r].phase \notin {uploads[r].phase, "awaiting"}) =>
            /\ uploads'[r].phase = "responded"
            /\ uploads'[r].responses = 1
            /\ reply'.kind = "http" /\ reply'.upload = r
            /\ reply'.status = 200
            /\ reply'.hasArrayReply
            /\ reply'.arrayReply \in Seq(Seq(Alphabet))
            /\ reply'.error => reply'.arrayReply = <<>>
            /\ reply'.error <=> uploads[r].phase \in {"transcoding", "rejected", "resolvedOther"}

C12_SingleResponse ==
    \A r \in Uploads :
        /\ uploads[r].responses <= 1
        /\ uploads[r].responses = 1 <=> uploads[r].phase = "responded"

C12_AlwaysAnswered200 == [][C12_ResponseStep]_vars /\ []C12_SingleResponse

\* an upstream rejection has just been answered with 200 and an empty list
\* while another upload has got its list
C12_Witness ==
    /\ reply.kind = "http" /\ reply.status = 200 /\ reply.error
    /\ failedRequests >= 1
    /\ \E r \in Uploads : uploads[r].phase = "responded" /\ reply.upload # r

\* C13: once the process has been shut down no task is left pending: every
\* task that was queued or in flight has had its promise settled (rejected
\* with a shutdown error).
C13_ShutdownFailsPending ==
    ~alive => \A t \in Tasks : pc[t] \notin {"queued", "fetching", "returned"}

\* C14: when an upstream call fails only its own task is failed.  The failure
\* is counted once and touches no other task; the task's promise is rejected
\* once; the finally block of the task gives its slot to the head of the
\* backlog, or frees it when the backlog is empty, and touches no other task;
\* every other task that is queued or in flight still gets settled.
C14_FailStep ==
    \A t \in Tasks :
        (pc[t] = "fetching" /\ pc'[t] = "returned" /\ result'[t] = "err") =>
            /\ failedRequests' = failedRequests + 1
            /\ UNCHANGED <<successfulRequests, activeRequests, requestQueue, settles, starts>>
            /\ \A u \in Tasks \ {t} : pc'[u] = pc[u] /\ result'[u] = result[u]

C14_RejectStep ==
    \A t \in Tasks :
        (result[t] = "err" /\ settles'[t] # settles[t]) =>
            /\ settles'[t] = 1
            /\ reply' = Settled(t, "err") /\ reply'.how = "rejected"
            /\ failedRequests' = failedRequests
            /\ \A u \in Tasks \ {t} : settles'[u] = settles[u] /\ result'[u] = result[u]

C14_ReleaseStep ==
    \A t \in Tasks :
        (pc[t] # "done" /\ pc'[t] = "done") =>
            IF requestQueue # <<>>
              THEN LET h == Head(requestQueue) IN
                   /\ pc'[h] = "fetching" /\ starts'[h] = 1
                   /\ requestQueue' = Tail(requestQueue)
                   /\ activeRequests' = activeRequests
                   /\ \A u \in Tasks \ {t, h} : pc'[u] = pc[u]
              ELSE /\ activeRequests' = activeRequests - 1
                   /\ requestQueue' = <<>>
                   /\ \A u \in Tasks \ {t} : pc'[u] = pc[u]

C14_OthersStillSettle ==
    \A u \in Tasks :
        (failedRequests >= 1 /\ pc[u] \in {"queued", "fetching", "returned"}) ~> (settles[u] = 1)

C14_FailureIsolated ==
    /\ [][C14_FailStep /\ C14_RejectStep /\ C14_ReleaseStep]_vars
    /\ C14_OthersStillSettle

\* the promise of a directly started task has just been rejected, its finally
\* block has started the head of the backlog, and another call is in flight
C14_Witness ==
    /\ reply.kind = "settled" /\ reply.how = "rejected"
    /\ pc[reply.task] = "done"
    /\ failedRequests = 1
    /\ \E h \in Tasks : pc[h] = "fetching" /\ via[h] = "queue"
    /\ \E u \in Tasks : u # reply.task /\ pc[u] = "fetching" /\ via[u] = "direct"

\* the reply text of the current input, and what the cleaning leaves of it
RawReply == ReplyText(input)

CleanedReply == Clean(ReplyText(input))

C16_WrappingInvariance ==
    (reply.kind = "parsed" /\ FirstIndex(input.core, Fence) = 0
        /\ ProcessReply(input.core).path = "json") =>
        reply.list = ProcessReply(input.core).list

\* the start indexes of s in increasing order, s a finite set of numbers
RECURSIVE Ascending(_)
Ascending(s) ==
    IF s = {} THEN <<>>
    ELSE LET m == CHOOSE m \in s : \A k \in s : m <= k IN <<m>> \o Ascending(s \ {m})

\* The occurrences of the plate pattern in s from left to right.  Two
\* occurrences cannot overlap (letters come before digits in each), so these
\* are the matches a global left-to-right search yields.
Occurrences(s) ==
    LET at == Ascending({i \in 1..Len(s) : PlateAt(s, i)}) IN
    [k \in 1..Len(at) |-> Quoted(SubSeq(s, at[k], at[k] + 5))]

\* C17 as stated: when the JSON interpretation fails the list is exactly the
\* occurrences of the plate pattern in the raw reply text, in order.
C17_FallbackScansRawReply ==
    (reply.kind = "parsed" /\ reply.path = "regex") => reply.list = Occurrences(RawReply)

\* C17 amended: when the JSON interpretation of the cleaned reply fails, the
\* list is exactly the occurrences of the plate pattern in the cleaned reply
\* text, in order, and the empty list when there is none.
C17_FallbackScansCleanedReply ==
    (reply.kind = "parsed" /\ ~SkipsParsing(CleanedReply) /\ ~JsonParse(CleanedReply).ok) =>
        /\ reply.path = "regex"
        /\ reply.list = Occurrences(CleanedReply)

\* two different plates have been taken in order out of a reply that is no JSON
C17_Witness ==
    /\ reply.kind = "parsed" /\ reply.path = "regex"
    /\ reply.list = <<Quoted(ABC123), Quoted(BCD230)>>

C19_InvalidIsRejected ==
    (reply.kind = "validation"
        /\ \/ input.length > MAX_SIZE
           \/ input.length = 0
           \/ input.format # "" /\ input.format \notin ALLOWED_FORMATS) =>
        /\ ~reply.isValid
        /\ reply.error # ""

\* C20: the frame the normalizer returns is ExpectedSize x ExpectedSize and
\* comes from the input by one scale factor for both axes (what goes beyond
\* the square being cut off), never by a different factor per axis.
C20_UniformResizeAndCrop ==
    reply.kind = "frame" =>
        /\ reply.width = ExpectedSize
        /\ reply.height = ExpectedSize
        /\ reply.scaleX[1] * reply.scaleY[2] = reply.scaleY[1] * reply.scaleX[2]

\* C21: work conservation.  Whenever tasks wait in the backlog every slot is
\* taken, and the step in which a finished task gives up its slot is the step
\* that starts the head of the backlog: a free slot never coexists with a
\* waiting task.
C21_NoIdleSlotWhileWaiting ==
    requestQueue # <<>> => activeRequests = MAX_CONCURRENT_REQUESTS

C21_HandOverStep ==
    \A t \in Tasks :
        (pc[t] # "done" /\ pc'[t] = "done" /\ requestQueue # <<>>) =>
            /\ NewlyStarted = {Head(requestQueue)}
            /\ activeRequests' = MAX_CONCURRENT_REQUESTS

C21_WorkConservation == []C21_NoIdleSlotWhileWaiting /\ [][C21_HandOverStep]_vars

\* a finished task has handed its slot to the head of the backlog while
\* another task is still waiting
C21_Witness ==
    /\ \E t \in Tasks : pc[t] = "done"
    /\ \E h \in Tasks : pc[h] = "fetching" /\ via[h] = "queue"
    /\ requestQueue # <<>>
    /\ activeRequests = MAX_CONCURRENT_REQUESTS

\* C22: when a started upstream call completes, with success or with failure,
\* its latency is recorded into the rolling window (which grows by one entry,
\* or keeps its full length) and exactly one of the two counters goes up by
\* one.
C22_CompletionStep ==
    \A t \in Tasks :
        (pc[t] = "fetching" /\ pc'[t] = "returned") =>
            /\ \E ms \in Latencies : processingTimes' = Recorded(processingTimes, ms)
            /\ \/ successfulRequests' = successfulRequests + 1 /\ failedRequests' = failedRequests
               \/ failedRequests' = failedRequests + 1 /\ successfulRequests' = successfulRequests

C22_CompletionIsMeasured == [][C22_CompletionStep]_vars

\* C23: the rolling window never holds more than MaxProcessingTimes entries;
\* a latency recorded into a full window takes the place of the oldest entry,
\* the others keeping their order, and no other step changes the window.
C23_WindowBounded == Len(processingTimes) <= MaxProcessingTimes

C23_RecordStep ==
    IF \E t \in Tasks : pc[t] = "fetching" /\ pc'[t] = "returned" /\ result'[t] = "ok"
      THEN \E ms \in Latencies :
               processingTimes' =
                   IF Len(processingTimes) = MaxProcessingTimes
                     THEN Tail(processingTimes) \o <<ms>>
                     ELSE processingTimes \o <<ms>>
      ELSE UNCHANGED processingTimes

C23_RollingWindow == []C23_WindowBounded /\ [][C23_RecordStep]_vars

\* more calls have succeeded than the window holds, and the window holds
\* latencies that differ
C23_Witness ==
    /\ successfulRequests > MaxProcessingTimes
    /\ Len(processingTimes) = MaxProcessingTimes
    /\ processingTimes[1] # processingTimes[MaxProcessingTimes]

\* C24: the cursor stays inside its sets: the credential index is one of
\* 0 .. NumKeys - 1 and the variant index one of 0 .. NumVersions - 1.
C24_CursorInBounds ==
    /\ currentKeyIndex \in 0..(NumKeys - 1)
    /\ currentVersionIndex \in 0..(NumVersions - 1)

\* the call that used the last credential and the last variant has moved the
\* cursor back to the first of each
C24_Witness ==
    /\ startLog # <<>>
    /\ startLog[Len(startLog)] = EndpointPair(NumKeys - 1, NumVersions - 1)
    /\ currentKeyIndex = 0
    /\ currentVersionIndex = 0

\* C25: the dispatcher has no timeout.  A call in flight leaves that state
\* only by its upstream call answering or failing; a slot is given up only in
\* the finally block of a task whose call has completed; a promise is settled
\* only after its call has completed; and while MAX_CONCURRENT_REQUESTS calls
\* are in flight no step starts another task.  So a call that never completes
\* keeps its slot, and with every slot held by such calls the tasks submitted
\* afterwards stay in the backlog.
C25_HungCallStep ==
    /\ \A t \in Tasks :
           /\ (pc[t] = "fetching" /\ pc'[t] # "fetching") =>
                  (pc'[t] = "returned" /\ result'[t] \in {"ok", "err"})
           /\ (settles'[t] # settles[t]) => pc[t] = "returned"
    /\ (activeRequests' < activeRequests) =>
           \E t \in Tasks : pc[t] \in {"returned", "settled"} /\ pc'[t] = "done"
    /\ (Cardinality(Fetching) = MAX_CONCURRENT_REQUESTS) =>
           (NewlyStarted = {} /\ activeRequests' = activeRequests)

C25_NoTimeout == [][C25_HungCallStep]_vars

\* every slot is held by a call that has not completed, nothing has been
\* settled, and two tasks submitted afterwards wait in the backlog
C25_Witness ==
    /\ Cardinality(Fetching) = MAX_CONCURRENT_REQUESTS
    /\ Len(requestQueue) = 2
    /\ \A t \in Tasks : settles[t] = 0
    /\ successfulRequests + failedRequests = 0

\* C26: single-shot uploads are independent of the stream status gate.  A
\* submission is possible in every stream status and is always started or put
\* in the backlog, never refused; no step of the dispatcher (submission,
\* completion, settling, release) changes the stream status or the pending
\* frames; the stream status is PROCESSING exactly while a frame is pending,
\* whatever the dispatcher does.
C26_SubmissionAlwaysPossible ==
    (requestCount < Cardinality(StreamTasks)) => ENABLED SubmitNextToStream

C26_StatusFollowsFrames == (serverStatus = PROCESSING) <=> (frames # {})

C26_DispatcherStep ==
    /\ (dispVars' # dispVars) => (serverStatus' = serverStatus /\ frames' = frames)
    /\ (requestCount' # requestCount) =>
           /\ requestCount' = requestCount + 1
           /\ pc'[requestCount'] \in {"fetching", "queued"}

C26_UploadsIgnoreStreamGate ==
    /\ [](C26_SubmissionAlwaysPossible /\ C26_StatusFollowsFrames)
    /\ [][C26_DispatcherStep]_vars

\* a frame is in progress (status PROCESSING) since the only message so far;
\* single-shot tasks have been started and completed, and the next
\* submission is possible
C26_Witness ==
    /\ serverStatus = PROCESSING
    /\ messageCount = 1
    /\ frames # {}
    /\ \E t \in StreamTasks : pc[t] = "done"
    /\ \E t \in StreamTasks : pc[t] = "fetching"
    /\ requestCount < Cardinality(StreamTasks)
    /\ ENABLED SubmitNextToStream

\* C27: every stream frame admitted by the status gate is submitted to the
\* dispatcher exactly once: the admitting step increments the total-submitted
\* counter, and by the time the frame's result is delivered one more upstream
\* call has been dispatched, consuming one rotation pair.
C27_AdmitStep ==
    /\ (messageCount' # messageCount /\ IsReady(serverStatus)) =>
           requestCount' = requestCount + 1
    /\ \A f \in frames :
           (f.phase = "resolved" /\ f.res.success /\ f \notin frames') =>
               Len(startLog) >= messageCount

C27_StreamFrameIsDispatched == [][C27_AdmitStep]_vars

\* C28: no completion order among the tasks in flight.  Whenever task B
\* releases its slot while a task A submitted before it is still in flight, B
\* has been resolved and A has not, A stays in flight, and if a task waits in
\* the backlog its head is started in that very step, without waiting for A.
C28_OvertakeStep ==
    \A A, B \in Tasks :
        (A < B /\ pc[A] = "fetching" /\ pc[B] # "done" /\ pc'[B] = "done") =>
            /\ settles'[B] = 1
            /\ settles'[A] = 0
            /\ pc'[A] = "fetching"
            /\ (requestQueue # <<>> =>
                   /\ pc'[Head(requestQueue)] = "fetching"
                   /\ starts'[Head(requestQueue)] = 1)

C28_CompletionUnordered == [][C28_OvertakeStep]_vars

\* A, started directly, is still in flight and unresolved; B, submitted after
\* A, is the only task that has finished, and it is resolved; the slot B gave
\* up is held by a task taken from the backlog
C28_Witness ==
    \E A, B, h \in Tasks :
        /\ A < B
        /\ pc[A] = "fetching" /\ via[A] = "direct" /\ settles[A] = 0
        /\ {t \in Tasks : pc[t] = "done"} = {B}
        /\ settles[B] = 1
        /\ pc[h] = "fetching" /\ via[h] = "queue" /\ starts[h] = 1

\* no completion is half-processed: no task sits between the return of its
\* upstream call and its finally block.  Those pieces are promise reactions
\* (microtasks); the stats route is a macrotask and runs in such states only.
BetweenEventLoopTasks == \A t \in Tasks : pc[t] \notin {"returned", "settled"}

\* C29: whenever the stats snapshot can be read (between event-loop tasks),
\* the total-submitted counter is the sum of the successful, failed, active
\* and queued counts, none of the five is negative, and a snapshot read there
\* reports numbers with the same sum.
C29_CounterConservation ==
    BetweenEventLoopTasks =>
        /\ requestCount = successfulRequests + failedRequests + activeRequests
                             + Len(requestQueue)
        /\ requestCount >= 0 /\ successfulRequests >= 0 /\ failedRequests >= 0
        /\ activeRequests >= 0
        /\ reply.kind = "stats" =>
               /\ reply.totalRequests = reply.successfulRequests + reply.failedRequests
                                           + reply.activeRequests + reply.queuedRequests
               /\ reply.totalRequests >= 0 /\ reply.successfulRequests >= 0
               /\ reply.failedRequests >= 0 /\ reply.activeRequests >= 0
               /\ reply.queuedRequests >= 0

\* a snapshot read between event-loop tasks in which every term is positive
C29_Witness ==
    /\ BetweenEventLoopTasks
    /\ reply.kind = "stats"
    /\ reply.successfulRequests > 0
    /\ reply.failedRequests > 0
    /\ reply.activeRequests > 0
    /\ reply.queuedRequests > 0

\* ERROR_CODES
ErrorCodes ==
    {"INVALID_IMAGE", "IMAGE_TOO_LARGE", "PROCESSING_TIMEOUT", "MODEL_NOT_LOADED",
     "INTERNAL_ERROR", "INVALID_FORMAT"}

\* what makes a payload invalid: no data, a declared format outside the
\* allow-list, a declared size above the maximum
C30_Invalid(img) ==
    \/ ~img.hasData
    \/ img.format # "" /\ img.format \notin ALLOWED_FORMATS
    \/ img.size # 0 /\ img.size > MAX_SIZE

C30_IsFailureRecord(res) ==
    ~res.success /\ res.code \in ErrorCodes /\ res.message # ""

C30_IsSuccessRecord(res) ==
    /\ res.success
    /\ res.result # Undefined
    /\ res.result.hasPlate \in BOOLEAN

\* what processImageFromSocket returns is a success or a failure record
C30_ReturnsRecord ==
    \A f \in frames :
        f.phase = "resolved" => (C30_IsSuccessRecord(f.res) \/ C30_IsFailureRecord(f.res))

C30_FailStep ==
    \* an admitted frame that fails validation resolves with a failure record
    \* in the admitting step
    /\ \A c \in Clients : \A img \in StreamInputs :
           (IsReady(serverStatus) /\ C30_Invalid(img) /\ AnalyzeImage(c, img)) =>
               \E f \in frames' \ frames :
                   f.client = c /\ f.phase = "resolved" /\ C30_IsFailureRecord(f.res)
    \* a frame whose data cannot be converted or decoded resolves with a
    \* failure record at that stage
    /\ \A f \in frames : \A g \in frames' \ frames :
           (g.id = f.id /\ g.phase # f.phase) =>
               /\ (f.phase = "converting" /\ f.kind = "object") =>
                      (g.phase = "resolved" /\ C30_IsFailureRecord(g.res))
               /\ (f.phase = "preprocessing" /\ ~f.decodable) =>
                      (g.phase = "resolved" /\ C30_IsFailureRecord(g.res))
               \* the detection step is entered only by a decoded frame, and
               \* a failure record never comes out of it
               /\ g.phase = "detecting" => (f.phase = "preprocessing" /\ f.decodable)
               /\ (g.phase = "resolved" /\ ~g.res.success) => f.phase # "detecting"
    \* the handler's promise is fulfilled: the .then callback delivers
    /\ (\E f \in frames : f.phase = "resolved" /\ f \notin frames') =>
           reply'.kind = "analysis-result"

\* C30: a stream frame that fails validation, conversion or decoding resolves
\* at that stage with a failure record carrying a code and a message, without
\* the detection step being entered, and processImageFromSocket always
\* returns a success record or a failure record (its promise never rejects).
C30_FailuresAreStructured == []C30_ReturnsRecord /\ [][C30_FailStep]_vars

\* an oversized frame has resolved with IMAGE_TOO_LARGE and its message
C30_Witness ==
    \E f \in frames :
        /\ f.phase = "resolved"
        /\ f.res = FailureRecord("IMAGE_TOO_LARGE", "Image too large")

\* a frame that sharp could not decode has resolved with a failure record
C30_WitnessDecode ==
    \E f \in frames :
        /\ f.phase = "resolved"
        /\ f.res = FailureRecord("INTERNAL_ERROR", PreprocessErrorMessage("INTERNAL_ERROR"))

====
